---------------------------- MODULE Spec2Model ----------------------------
(***************************************************************************)
(* Model of .github/files/auto-merge-successful-pr.py: one pass over the   *)
(* open pull requests of a repository.  The generator chain                 *)
(*   get_pull_requests -> match_labels_or_bot -> mergeable_prs ->           *)
(*   check_prs_ready -> process_pull_requests                               *)
(* is lazy, so one pull request at a time travels through all stages; pc   *)
(* is the stage the current pull request has reached.                       *)
(***************************************************************************)
EXTENDS Integers, Sequences, FiniteSets, TLC

(* ---------------------------- bounds ----------------------------------- *)
\* pull-request numbers are 1..MaxPRs
MaxPRs == 3
\* longest check list given to the classifier and the readiness test alone
MaxChecks == 3
\* largest MIN_PASSING_CHECKS tried by the readiness test alone
MaxMin == 3
\* longest label list and longest LABELS tried by the label test alone
MaxLabels == 2

(* ---------------------------- value sets ------------------------------- *)
NoPR == [number |-> 0]
NoChecks == [none |-> TRUE]
Null == [null |-> TRUE]

Buckets == {"pass", "fail", "pending", "skipping", "cancel", "neutral"}
CheckNames == {"build", "lint"}
RawChecks == [name : CheckNames, bucket : Buckets]
Mergeables == {"MERGEABLE", "CONFLICTING", "UNKNOWN"}
Branches == {"main", "dev"}
Logins == {"renovate", "alice"}
Authors == [is_bot : BOOLEAN, login : Logins]

RECURSIVE SeqsUpTo(_, _)
SeqsUpTo(S, n) ==
    IF n = 0 THEN {<<>>}
    ELSE LET shorter == SeqsUpTo(S, n - 1)
         IN shorter \cup {Append(s, x) : s \in {t \in shorter : Len(t) = n - 1}, x \in S}

Range(s) == {s[i] : i \in 1..Len(s)}

VARIABLES
    DRY_RUN,             \* configuration read from the environment
    LABELS,
    BOT_AUTHORS,
    MIN_PASSING_CHECKS,
    pc,                  \* stage reached by the current pull request
    prs,                 \* get_pull_requests: listed entries not yet viewed
    pr,                  \* the PullRequest travelling through the chain
    ready,               \* what the generator `ready` has yielded so far
    merged,              \* process_pull_requests: base branch -> pull request
    cmds,                \* commands run by subprocess.run, with exit status
    stdout,              \* lines printed
    fnIn,                \* argument / result of a function applied alone
    fnOut

vars == <<DRY_RUN, LABELS, BOT_AUTHORS, MIN_PASSING_CHECKS, pc, prs, pr, ready,
          merged, cmds, stdout, fnIn, fnOut>>
config == <<DRY_RUN, LABELS, BOT_AUTHORS, MIN_PASSING_CHECKS>>
fn == <<fnIn, fnOut>>

(* ---------------------------- PullRequestChecks.from_list -------------- *)
EmptyChecks == [passed |-> <<>>, failed |-> <<>>, pending |-> <<>>,
                skipping |-> <<>>, cancel |-> <<>>]

\* the if/elif chain of one loop iteration
ClassifyOneElifTypo(acc, check_obj) ==
    IF check_obj.bucket = "pass" THEN [acc EXCEPT !.passed = Append(@, check_obj)]
    ELSE IF check_obj.bucket = "fail" THEN [acc EXCEPT !.failed = Append(@, check_obj)]
    ELSE IF check_obj.bucket = "pending" THEN [acc EXCEPT !.pending = Append(@, check_obj)]
    ELSE IF check_obj.bucket = "skipping" THEN [acc EXCEPT !.skipping = Append(@, check_obj)]
    ELSE [acc EXCEPT !.cancel = Append(@, check_obj)]

ClassifyOneSkipCounts(acc, check_obj) ==
    IF check_obj.bucket \in {"pass", "skipping"}
    THEN [acc EXCEPT !.passed = Append(@, check_obj)]
    ELSE IF check_obj.bucket = "fail" THEN [acc EXCEPT !.failed = Append(@, check_obj)]
    ELSE IF check_obj.bucket = "pending" THEN [acc EXCEPT !.pending = Append(@, check_obj)]
    ELSE IF check_obj.bucket = "cancel" THEN [acc EXCEPT !.cancel = Append(@, check_obj)]
    ELSE acc

ClassifyOne(acc, check_obj) ==
    IF check_obj.bucket = "pass" THEN [acc EXCEPT !.passed = Append(@, check_obj)]
    ELSE IF check_obj.bucket = "fail" THEN [acc EXCEPT !.failed = Append(@, check_obj)]
    ELSE IF check_obj.bucket = "pending" THEN [acc EXCEPT !.pending = Append(@, check_obj)]
    ELSE IF check_obj.bucket = "skipping" THEN [acc EXCEPT !.skipping = Append(@, check_obj)]
    ELSE IF check_obj.bucket = "cancel" THEN [acc EXCEPT !.cancel = Append(@, check_obj)]
    ELSE acc

RECURSIVE FromListLoop(_, _)
FromListLoop(checks, acc) ==
    IF checks = <<>> THEN acc
    ELSE FromListLoop(Tail(checks), ClassifyOne(acc, Head(checks)))

from_list(checks) == FromListLoop(checks, EmptyChecks)

(* ---------------------------- sh --------------------------------------- *)
\* sh(cmd, dry_run): in dry mode the command is printed and "" returned;
\* otherwise subprocess.run executes it and a non-zero exit status raises.
ShOutcomes(dry_run) ==
    IF dry_run THEN {[ran |-> FALSE, rc |-> 0]}
    ELSE {[ran |-> TRUE, rc |-> 0], [ran |-> TRUE, rc |-> 1]}

\* the default `dry_run=False`, taken by the list, view and checks queries
ReadDryRunGlobal == DRY_RUN

ReadDryRun == FALSE

\* `if result.returncode != 0: raise`
RaisesNever(o) == FALSE

Raises(o) == o.rc # 0

Cmd(kind, number) == [kind |-> kind, number |-> number]

WouldRun(cmd) == [text |-> "Would run", arg |-> cmd]

ShRunAlways(history, cmd, o) == Append(history, [cmd |-> cmd, rc |-> o.rc])

ShRun(history, cmd, o) ==
    IF o.ran THEN Append(history, [cmd |-> cmd, rc |-> o.rc]) ELSE history

\* `if dry_run: print(...)`: nothing is printed for a command that is run
ShPrintAlways(out, cmd, o) == Append(out, WouldRun(cmd))

ShPrint(out, cmd, o) ==
    IF o.ran THEN out ELSE Append(out, WouldRun(cmd))

Line(text, arg) == [text |-> text, arg |-> arg]

(* ---------------------------- get_pull_requests ------------------------ *)
\* sorted(..., key=number): stable insertion into an ascending list
RECURSIVE InsertDescending(_, _)
InsertDescending(sorted, e) ==
    IF sorted = <<>> THEN <<e>>
    ELSE IF e.number > Head(sorted).number THEN <<e>> \o sorted
    ELSE <<Head(sorted)>> \o InsertDescending(Tail(sorted), e)

RECURSIVE InsertByNumber(_, _)
InsertByNumber(sorted, e) ==
    IF sorted = <<>> THEN <<e>>
    ELSE IF e.number < Head(sorted).number THEN <<e>> \o sorted
    ELSE <<Head(sorted)>> \o InsertByNumber(Tail(sorted), e)

RECURSIVE SortLoop(_, _)
SortLoop(list, acc) ==
    IF list = <<>> THEN acc
    ELSE SortLoop(Tail(list), InsertByNumber(acc, Head(list)))

SortedUnsorted(list) == list

Sorted(list) == SortLoop(list, <<>>)

LabelLists == {<<>>, <<"automerge">>}

\* what `gh pr list` can answer: the open pull requests, each listed once,
\* in any order
Listings ==
    UNION {{l \in [1..k -> [number : 1..MaxPRs, labels : LabelLists]] :
              \A i, j \in 1..k : i # j => l[i].number # l[j].number}
             : k \in 0..MaxPRs}

Views == [mergeable : Mergeables, baseRefName : Branches, author : Authors]

ListPullRequests ==
    /\ pc = "start"
    /\ \E o \in ShOutcomes(ReadDryRun), listing \in Listings :
         /\ stdout' = ShPrint(Append(stdout, Line("LABELS=", LABELS)), Cmd("list", 0), o)
         /\ cmds' = ShRun(cmds, Cmd("list", 0), o)
         /\ IF Raises(o)
               THEN pc' = "aborted" /\ prs' = prs
               ELSE pc' = "next" /\ prs' = Sorted(listing)
    /\ UNCHANGED <<config, pr, ready, merged, fn>>

\* generator exhausted: every `for` loop of the chain ends
Exhausted ==
    /\ pc = "next"
    /\ prs = <<>>
    /\ pc' = "done"
    /\ UNCHANGED <<config, prs, pr, ready, merged, cmds, stdout, fn>>

\* `for pr_dict in prs`: the entries after the one taken
RestStuck(list) == list

Rest(list) == Tail(list)

\* one iteration of the loop of get_pull_requests, up to its yield
ViewPullRequest ==
    /\ pc = "next"
    /\ prs # <<>>
    /\ LET pr_dict == Head(prs)
           cmd == Cmd("view", pr_dict.number)
       IN \E o \in ShOutcomes(ReadDryRun), view \in Views :
            /\ cmds' = ShRun(cmds, cmd, o)
            /\ IF Raises(o)
                  THEN /\ pc' = "aborted"
                       /\ stdout' = ShPrint(stdout, cmd, o)
                       /\ UNCHANGED <<prs, pr>>
                  ELSE /\ pr' = [number |-> pr_dict.number,
                                 labels |-> pr_dict.labels,
                                 author |-> view.author,
                                 mergeable |-> view.mergeable,
                                 baseRefName |-> view.baseRefName,
                                 checks |-> NoChecks]
                       /\ prs' = Rest(prs)
                       /\ stdout' = Append(ShPrint(stdout, cmd, o),
                                           Line("PR #", pr_dict.number))
                       /\ pc' = "labels"
    /\ UNCHANGED <<config, ready, merged, fn>>

(* ---------------------------- match_labels_or_bot ---------------------- *)
IsAllowedBot(p, bot_authors) ==
    p.author.is_bot /\ p.author.login \in Range(bot_authors)

MissingLabels(p, labels) ==
    SelectSeq(labels, LAMBDA req : ~(req \in Range(p.labels)))

\* the line printed for p; every line but "skipped ..." goes with a yield
LabelStageBotFlagOnly(p, labels, bot_authors) ==
    IF p.author.is_bot
    THEN Line("is bot author", <<>>)
    ELSE IF labels = <<>> \/ MissingLabels(p, labels) = <<>>
         THEN Line("matches labels", <<>>)
         ELSE Line("skipped not labeled with labels=", MissingLabels(p, labels))

LabelStage(p, labels, bot_authors) ==
    IF IsAllowedBot(p, bot_authors)
    THEN Line("is bot author", <<>>)
    ELSE IF labels = <<>> \/ MissingLabels(p, labels) = <<>>
         THEN Line("matches labels", <<>>)
         ELSE Line("skipped not labeled with labels=", MissingLabels(p, labels))

LabelYieldsAlways(line) == TRUE

LabelYields(line) == line.text \in {"is bot author", "matches labels"}

MatchLabelsOrBot ==
    /\ pc = "labels"
    /\ LET line == LabelStage(pr, LABELS, BOT_AUTHORS)
       IN /\ stdout' = Append(stdout, line)
          /\ IF LabelYields(line)
                THEN pc' = "mergeable" /\ pr' = pr
                ELSE pc' = "next" /\ pr' = NoPR
    /\ UNCHANGED <<config, prs, ready, merged, cmds, fn>>

(* ---------------------------- mergeable_prs ---------------------------- *)
MergeableStageNotConflicting(p) ==
    IF p.mergeable # "CONFLICTING"
    THEN Line("is mergeable", <<>>)
    ELSE Line("not mergeable", <<>>)

MergeableStage(p) ==
    IF p.mergeable = "MERGEABLE"
    THEN Line("is mergeable", <<>>)
    ELSE Line("not mergeable", <<>>)

MergeablePrs ==
    /\ pc = "mergeable"
    /\ LET line == MergeableStage(pr)
       IN /\ stdout' = Append(stdout, line)
          /\ IF line.text = "is mergeable"
                THEN pc' = "checks" /\ pr' = pr
                ELSE pc' = "next" /\ pr' = NoPR
    /\ UNCHANGED <<config, prs, ready, merged, cmds, fn>>

(* ---------------------------- check_prs_ready -------------------------- *)
\* len(failed) or len(pending) or len(cancel): the first non-zero length,
\* else the last one
AnyUnready(checks) ==
    IF Len(checks.failed) # 0 THEN Len(checks.failed)
    ELSE IF Len(checks.pending) # 0 THEN Len(checks.pending)
    ELSE Len(checks.cancel)

\* the line printed for classified checks, "yield" when nothing is printed
CheckStageNoPending(checks, min_passing) ==
    IF Len(checks.failed) # 0 \/ Len(checks.cancel) # 0
    THEN Line("skipped tests are not passing", <<>>)
    ELSE IF Len(checks.passed) < min_passing
         THEN Line("skipped passing but with too few checks", Len(checks.passed))
         ELSE Line("yield", <<>>)

CheckStageTooFewFirst(checks, min_passing) ==
    IF Len(checks.passed) < min_passing
    THEN Line("skipped passing but with too few checks", Len(checks.passed))
    ELSE IF AnyUnready(checks) # 0
         THEN Line("skipped tests are not passing", <<>>)
         ELSE Line("yield", <<>>)

CheckStage(checks, min_passing) ==
    IF AnyUnready(checks) # 0
    THEN Line("skipped tests are not passing", <<>>)
    ELSE IF Len(checks.passed) < min_passing
         THEN Line("skipped passing but with too few checks", Len(checks.passed))
         ELSE Line("yield", <<>>)

\* the answers of `gh pr checks` tried during a run: one list for every
\* path through from_list and the readiness test
Check(name, bucket) == [name |-> name, bucket |-> bucket]

RunCheckLists ==
    {<<>>,
     <<Check("build", "pass")>>,
     <<Check("build", "pass"), Check("lint", "pass")>>,
     <<Check("build", "pass"), Check("lint", "fail")>>,
     <<Check("build", "pass"), Check("lint", "pending")>>,
     <<Check("build", "cancel"), Check("lint", "pass")>>,
     <<Check("build", "skipping")>>,
     <<Check("build", "pass"), Check("lint", "neutral")>>}

CheckPrsReady ==
    /\ pc = "checks"
    /\ LET cmd == Cmd("checks", pr.number)
       IN \E o \in ShOutcomes(ReadDryRun), checks \in RunCheckLists :
            /\ cmds' = ShRun(cmds, cmd, o)
            /\ IF Raises(o)
                  THEN /\ pc' = "aborted"
                       /\ stdout' = ShPrint(stdout, cmd, o)
                       /\ UNCHANGED <<pr, ready>>
                  ELSE LET classified == from_list(checks)
                           line == CheckStage(classified, MIN_PASSING_CHECKS)
                       IN IF line.text = "yield"
                             THEN /\ pr' = [pr EXCEPT !.checks = classified]
                                  /\ ready' = Append(ready, [number |-> pr.number,
                                                          baseRefName |-> pr.baseRefName])
                                  /\ stdout' = ShPrint(stdout, cmd, o)
                                  /\ pc' = "coord"
                             ELSE /\ pr' = NoPR
                                  /\ ready' = ready
                                  /\ stdout' = Append(ShPrint(stdout, cmd, o), line)
                                  /\ pc' = "next"
    /\ UNCHANGED <<config, prs, merged, fn>>

(* ---------------------------- process_pull_requests -------------------- *)
\* merged[pr.baseRefName] = pr; a pull request is kept by its number
RecordOnlyLive(m, p, dry_run) ==
    IF dry_run THEN m
    ELSE [b \in DOMAIN m \cup {p.baseRefName} |->
            IF b = p.baseRefName THEN p.number ELSE m[b]]

Record(m, p, dry_run) ==
    [b \in DOMAIN m \cup {p.baseRefName} |->
       IF b = p.baseRefName THEN p.number ELSE m[b]]

\* `pr.baseRefName not in merged`
UnclaimedByNumber(m, p) == \A b \in DOMAIN m : m[b] # p.number

UnclaimedWhenEmpty(m, p) == DOMAIN m = {}

Unclaimed(m, p) == ~(p.baseRefName \in DOMAIN m)

\* sh(review) at lines 153-156, then sh(merge) at line 157
RunBothSwapped(history, first, o1, second, o2) ==
    ShRun(ShRun(history, second, o2), first, o1)

RunBoth(history, first, o1, second, o2) ==
    ShRun(ShRun(history, first, o1), second, o2)

ApproveAndMergePr ==
    /\ pc = "coord"
    /\ Unclaimed(merged, pr)
    /\ LET review == Cmd("review", pr.number)
           merge == Cmd("merge", pr.number)
           out0 == Append(stdout, Line("is ready to merging", <<>>))
       IN \E o1 \in ShOutcomes(DRY_RUN) :
            IF Raises(o1)
            THEN /\ cmds' = ShRun(cmds, review, o1)
                 /\ stdout' = ShPrint(out0, review, o1)
                 /\ pc' = "aborted"
                 /\ UNCHANGED <<pr, merged>>
            ELSE \E o2 \in ShOutcomes(DRY_RUN) :
                   /\ cmds' = RunBoth(cmds, review, o1, merge, o2)
                   /\ IF Raises(o2)
                         THEN /\ stdout' = ShPrint(ShPrint(out0, review, o1), merge, o2)
                              /\ pc' = "aborted"
                              /\ UNCHANGED <<pr, merged>>
                         ELSE /\ stdout' =
                                   IF ~DRY_RUN
                                   THEN Append(ShPrint(ShPrint(out0, review, o1), merge, o2),
                                               Line("merged to", pr.baseRefName))
                                   ELSE ShPrint(ShPrint(out0, review, o1), merge, o2)
                              /\ merged' = Record(merged, pr, DRY_RUN)
                              /\ pr' = NoPR
                              /\ pc' = "next"
    /\ UNCHANGED <<config, prs, ready, fn>>

\* the command of rebase_pr
RebaseCmdMerges(p) == Cmd("merge", p.number)

RebaseCmd(p) == Cmd("update-branch", p.number)

RebasePr ==
    /\ pc = "coord"
    /\ ~Unclaimed(merged, pr)
    /\ LET rebase == RebaseCmd(pr)
           out0 == Append(stdout, Line("needs to be rebased from", pr.baseRefName))
       IN \E o \in ShOutcomes(DRY_RUN) :
            /\ cmds' = ShRun(cmds, rebase, o)
            /\ stdout' = ShPrint(out0, rebase, o)
            /\ IF Raises(o)
                  THEN pc' = "aborted" /\ pr' = pr
                  ELSE pc' = "next" /\ pr' = NoPR
    /\ UNCHANGED <<config, prs, ready, merged, fn>>

\* the run starts in either mode, with the default label and one allowed
\* bot; the label test is tried with other LABELS and BOT_AUTHORS by itself
Init ==
    /\ DRY_RUN \in BOOLEAN
    /\ LABELS = <<"automerge">>
    /\ BOT_AUTHORS = <<"renovate">>
    /\ MIN_PASSING_CHECKS \in {0, 1}
    /\ pc = "start"
    /\ prs = <<>>
    /\ pr = NoPR
    /\ ready = <<>>
    /\ merged = <<>>
    /\ cmds = <<>>
    /\ stdout = <<>>
    /\ fnIn = Null
    /\ fnOut = Null

(* ---------------------------- functions applied alone ---------------- *)
\* The classifier and the two configurable stage tests, each applied once
\* to an argument drawn from a bounded set.
InitFn ==
    /\ DRY_RUN = TRUE
    /\ LABELS = <<"automerge">>
    /\ BOT_AUTHORS = <<>>
    /\ MIN_PASSING_CHECKS = 1
    /\ pc = "fn"
    /\ prs = <<>>
    /\ pr = NoPR
    /\ ready = <<>>
    /\ merged = <<>>
    /\ cmds = <<>>
    /\ stdout = <<>>
    /\ fnOut = Null

Frame == UNCHANGED <<config, pc, prs, pr, ready, merged, cmds, stdout, fnIn>>

InitClassify == InitFn /\ fnIn \in SeqsUpTo(RawChecks, MaxChecks)

Classify ==
    /\ pc = "fn"
    /\ fnOut = Null
    /\ fnOut' = from_list(fnIn)
    /\ Frame

SpecClassify == InitClassify /\ [][Classify]_vars

BuildChecks == [name : {"build"}, bucket : Buckets]

InitCheckReady ==
    InitFn /\ fnIn \in [checks : SeqsUpTo(BuildChecks, MaxChecks), min : 0..MaxMin]

CheckReady ==
    /\ pc = "fn"
    /\ fnOut = Null
    /\ fnOut' = CheckStage(from_list(fnIn.checks), fnIn.min)
    /\ Frame

SpecCheckReady == InitCheckReady /\ [][CheckReady]_vars

LabelNames == {"automerge", "lgtm", "wip"}
RequiredNames == {"automerge", "lgtm"}

InitLabels ==
    InitFn /\ fnIn \in [pr : [labels : SeqsUpTo(LabelNames, MaxLabels), author : Authors],
                        labels : SeqsUpTo(RequiredNames, MaxLabels),
                        bot_authors : SeqsUpTo(Logins, 1)]

MatchLabels ==
    /\ pc = "fn"
    /\ fnOut = Null
    /\ fnOut' = LabelStage(fnIn.pr, fnIn.labels, fnIn.bot_authors)
    /\ Frame

SpecLabels == InitLabels /\ [][MatchLabels]_vars

Next ==
    \/ ListPullRequests
    \/ Exhausted
    \/ ViewPullRequest
    \/ MatchLabelsOrBot
    \/ MergeablePrs
    \/ CheckPrsReady
    \/ ApproveAndMergePr
    \/ RebasePr

Spec == Init /\ [][Next]_vars

(* ---------------------------- reading a run ---------------------------- *)
Ran(kind, n) == \E i \in 1..Len(cmds) : cmds[i].cmd = Cmd(kind, n)

Logged(kind, n) == \E i \in 1..Len(stdout) : stdout[i] = WouldRun(Cmd(kind, n))

\* the command was executed or, in dry mode, announced
Issued(kind, n) == Ran(kind, n) \/ Logged(kind, n)

TimesIssued(kind, n) ==
    Cardinality({i \in 1..Len(cmds) : cmds[i].cmd = Cmd(kind, n)})
    + Cardinality({i \in 1..Len(stdout) : stdout[i] = WouldRun(Cmd(kind, n))})

\* the k-th pull request yielded by `ready` has left the coordinator
Processed(k) == k < Len(ready) \/ pc # "coord"

SameBase(i, j) == ready[i].baseRefName = ready[j].baseRefName

ReadyNumbers == {ready[k].number : k \in 1..Len(ready)}

(* ---------------------------- claims ----------------------------------- *)
\* C1: at most one merge is issued per base branch; a ready pull request
\* processed after another ready one with the same base branch gets no
\* approval and no merge, and is rebased.
C1_OneMergePerBase ==
    /\ \A i \in 1..Len(cmds) :
         cmds[i].cmd.kind = "merge" =>
           /\ cmds[i].cmd.number \in ReadyNumbers
           /\ TimesIssued("merge", cmds[i].cmd.number) = 1
    /\ \A i \in 1..Len(stdout) :
         (stdout[i].text = "Would run" /\ stdout[i].arg.kind = "merge") =>
           /\ stdout[i].arg.number \in ReadyNumbers
           /\ TimesIssued("merge", stdout[i].arg.number) = 1
    /\ \A i, j \in 1..Len(ready) :
         (i < j /\ SameBase(i, j)) =>
            /\ ~Issued("merge", ready[j].number)
            /\ ~Issued("review", ready[j].number)
            /\ (Processed(j) => Issued("update-branch", ready[j].number))

C1_Witness ==
    \E i, j \in 1..Len(ready) :
       /\ i < j /\ SameBase(i, j)
       /\ Issued("merge", ready[i].number)
       /\ Issued("update-branch", ready[j].number)
       /\ pc = "done"

\* no pull request yielded by `ready` before the k-th has its base branch
FirstOfBase(r, k) == \A i \in 1..(k - 1) : r[i].baseRefName # r[k].baseRefName

ViewedNumbers ==
    LET views == SelectSeq(cmds, LAMBDA c : c.cmd.kind = "view")
    IN [k \in 1..Len(views) |-> views[k].cmd.number]

\* the state part and the step part of C2
C2_Ascending ==
    /\ \A i, j \in 1..Len(ViewedNumbers) : i < j => ViewedNumbers[i] < ViewedNumbers[j]
    /\ \A i, j \in 1..Len(ready) : i < j => ready[i].number < ready[j].number
    /\ \A k \in 1..Len(ready) :
         Issued("merge", ready[k].number) =>
            \A i \in 1..Len(ready) : SameBase(i, k) => ready[k].number <= ready[i].number
    /\ \A b \in DOMAIN merged :
         /\ merged[b] \in ReadyNumbers
         /\ \A i \in 1..Len(ready) : ready[i].baseRefName = b => merged[b] <= ready[i].number

C2_EntryKept ==
    \A b \in DOMAIN merged : b \in DOMAIN merged' /\ merged'[b] = merged[b]

\* C2: pull requests are viewed, and ready ones processed, in ascending
\* number order; the pull request merged into (and recorded under) a base
\* branch is the lowest-numbered ready one targeting it; an entry of the
\* mapping is never overwritten or removed.
C2_LowestReadyWins == []C2_Ascending /\ [][C2_EntryKept]_vars

C2_Witness ==
    /\ pc = "done"
    /\ \E i, j \in 1..Len(ready) :
         /\ i < j /\ SameBase(i, j)
         /\ ready[i].baseRefName \in DOMAIN merged
         /\ merged[ready[i].baseRefName] = ready[i].number
         /\ Issued("update-branch", ready[j].number)
    /\ Cardinality(DOMAIN merged) = 2

ActionKinds == {"review", "merge", "update-branch"}

\* the pull request that line i of the output is about: the number in the
\* last "PR #" line at or before i
NumberAt(i) ==
    LET ids == {k \in 1..i : stdout[k].text = "PR #"}
    IN IF ids = {} THEN 0
       ELSE stdout[CHOOSE k \in ids : \A m \in ids : m <= k].arg

\* C3: in dry-run mode no approval, merge or rebase command is executed;
\* each of them is only announced by a "Would run" line.
C3_DryRunOnlyLogs ==
    DRY_RUN =>
      /\ \A i \in 1..Len(cmds) : ~(cmds[i].cmd.kind \in ActionKinds)
      /\ \A i \in 1..Len(stdout) :
           /\ stdout[i].text = "is ready to merging" =>
                /\ i + 2 <= Len(stdout)
                /\ stdout[i + 1] = WouldRun(Cmd("review", NumberAt(i)))
                /\ stdout[i + 2] = WouldRun(Cmd("merge", NumberAt(i)))
           /\ stdout[i].text = "needs to be rebased from" =>
                /\ i + 1 <= Len(stdout)
                /\ stdout[i + 1] = WouldRun(Cmd("update-branch", NumberAt(i)))

C3_Witness ==
    /\ DRY_RUN
    /\ pc = "done"
    /\ \E n, m \in 1..MaxPRs : Logged("merge", n) /\ Logged("update-branch", m)

\* the decisions taken by the coordinator, in order
Decisions ==
    LET taken == SelectSeq(stdout, LAMBDA l : l.text \in {"is ready to merging",
                                                         "needs to be rebased from"})
    IN [k \in 1..Len(taken) |->
          IF taken[k].text = "is ready to merging" THEN "merge" ELSE "rebase"]

ProcessedReady ==
    IF pc = "coord" THEN SubSeq(ready, 1, Len(ready) - 1) ELSE ready

\* C4: as long as no command fails, the decisions and the mapping are a
\* function of the pull requests yielded by `ready` alone, the same in
\* dry-run and in live mode: the k-th is merged and recorded under its base
\* branch when no earlier one has that base branch, and rebased otherwise.
C4_SameBookkeeping ==
    pc # "aborted" =>
      LET r == ProcessedReady
      IN /\ Len(Decisions) = Len(r)
         /\ \A k \in 1..Len(r) :
              Decisions[k] = IF FirstOfBase(r, k) THEN "merge" ELSE "rebase"
         /\ DOMAIN merged = {r[k].baseRefName : k \in 1..Len(r)}
         /\ \A k \in 1..Len(r) :
              FirstOfBase(r, k) => merged[r[k].baseRefName] = r[k].number

C4_Witness ==
    /\ DRY_RUN
    /\ pc = "done"
    /\ Len(ready) = 3
    /\ Decisions = <<"merge", "rebase", "merge">>
    /\ Cardinality(DOMAIN merged) = 2

Count(checks, bucket) == Len(SelectSeq(checks, LAMBDA c : c.bucket = bucket))

Green(checks, min) ==
    /\ Count(checks, "fail") = 0
    /\ Count(checks, "pending") = 0
    /\ Count(checks, "cancel") = 0
    /\ Count(checks, "pass") >= min

\* checks without its passed checks after the first m of them
RECURSIVE KeepPasses(_, _)
KeepPasses(checks, m) ==
    IF checks = <<>> THEN <<>>
    ELSE IF Head(checks).bucket # "pass" THEN <<Head(checks)>> \o KeepPasses(Tail(checks), m)
    ELSE IF m > 0 THEN <<Head(checks)>> \o KeepPasses(Tail(checks), m - 1)
    ELSE KeepPasses(Tail(checks), m)

ReadyVerdict(checks, min) == CheckStage(from_list(checks), min).text = "yield"

\* C5: a check list passes the readiness test exactly when it has no
\* failed, pending or cancelled check and at least the minimum number of
\* passed checks; with one more pending check, or with fewer passed checks
\* than the minimum, it does not pass.
C5_ReadyIffGreen ==
    fnOut # Null =>
      /\ (fnOut.text = "yield") <=> Green(fnIn.checks, fnIn.min)
      /\ ~ReadyVerdict(Append(fnIn.checks, Check("lint", "pending")), fnIn.min)
      /\ \A m \in 0..(fnIn.min - 1) : ~ReadyVerdict(KeepPasses(fnIn.checks, m), fnIn.min)

C5_Witness ==
    /\ fnOut # Null
    /\ fnOut.text = "yield"
    /\ fnIn.min = 2
    /\ Count(fnIn.checks, "pass") = 2
    /\ Len(fnIn.checks) = 3

\* C6: a pull request passes the label-or-bot test exactly when its author
\* is a bot whose login is allowed, or no label is required, or it carries
\* every required label; the bot flag without an allowed login does not
\* replace a missing label.
C6_LabelOrBotIff ==
    fnOut # Null =>
      LET author == fnIn.pr.author
          allowed == author.is_bot /\ author.login \in Range(fnIn.bot_authors)
          labelled == Range(fnIn.labels) \subseteq Range(fnIn.pr.labels)
      IN /\ LabelYields(fnOut) <=> (allowed \/ fnIn.labels = <<>> \/ labelled)
         /\ fnIn.labels = <<>> => LabelYields(fnOut)
         /\ (author.is_bot /\ ~allowed /\ ~labelled) => ~LabelYields(fnOut)

C6_Witness ==
    /\ fnOut # Null
    /\ fnIn.pr.author.is_bot
    /\ fnIn.bot_authors # <<>>
    /\ ~(fnIn.pr.author.login \in Range(fnIn.bot_authors))
    /\ fnIn.labels = <<"automerge", "lgtm">>
    /\ fnIn.pr.labels = <<"automerge", "wip">>
    /\ ~LabelYields(fnOut)

Tagged(checks, bucket) == SelectSeq(checks, LAMBDA c : c.bucket = bucket)

Recognized == {"pass", "fail", "pending", "skipping", "cancel"}

\* C10: each of the five sequences is the input restricted to its own tag,
\* in input order; checks with another tag are in none of them.
C10_Partition ==
    fnOut # Null =>
      /\ fnOut.passed = Tagged(fnIn, "pass")
      /\ fnOut.failed = Tagged(fnIn, "fail")
      /\ fnOut.pending = Tagged(fnIn, "pending")
      /\ fnOut.skipping = Tagged(fnIn, "skipping")
      /\ fnOut.cancel = Tagged(fnIn, "cancel")
      /\ Len(fnOut.passed) + Len(fnOut.failed) + Len(fnOut.pending)
           + Len(fnOut.skipping) + Len(fnOut.cancel)
         = Len(SelectSeq(fnIn, LAMBDA c : c.bucket \in Recognized))

C10_Witness ==
    /\ fnOut # Null
    /\ fnIn = <<Check("lint", "pass"), Check("build", "neutral"), Check("build", "pass")>>
    /\ fnOut.passed = <<Check("lint", "pass"), Check("build", "pass")>>
    /\ fnOut.cancel = <<>>

PassesLabelOrBot(p) ==
    \/ p.author.is_bot /\ p.author.login \in Range(BOT_AUTHORS)
    \/ LABELS = <<>>
    \/ Range(LABELS) \subseteq Range(p.labels)

AllGreen(p) ==
    /\ p.checks # NoChecks
    /\ Len(p.checks.failed) = 0
    /\ Len(p.checks.pending) = 0
    /\ Len(p.checks.cancel) = 0
    /\ Len(p.checks.passed) >= MIN_PASSING_CHECKS

\* the commands executed and the commands announced by the step
NewCmds == {cmds'[i].cmd : i \in (Len(cmds) + 1)..Len(cmds')}

NewAnnounced ==
    {stdout'[i].arg : i \in {k \in (Len(stdout) + 1)..Len(stdout') :
                               stdout'[k].text = "Would run"}}

NewActions == {c \in NewCmds \cup NewAnnounced : c.kind \in ActionKinds}

SkipTexts == {"skipped not labeled with labels=", "not mergeable",
              "skipped tests are not passing",
              "skipped passing but with too few checks"}

ExcludedBy(n, texts) ==
    \E i \in 1..Len(stdout) : stdout[i].text \in texts /\ NumberAt(i) = n

\* the step part and the state part of C7
C7_Step ==
    NewActions # {} =>
      /\ pc = "coord"
      /\ \A c \in NewActions : c.number = pr.number
      /\ PassesLabelOrBot(pr)
      /\ pr.mergeable = "MERGEABLE"
      /\ AllGreen(pr)

C7_Excluded ==
    \A n \in 1..MaxPRs :
       ExcludedBy(n, SkipTexts) =>
         /\ \A kind \in ActionKinds : ~Issued(kind, n)
         /\ ~(n \in ReadyNumbers)
         /\ \A b \in DOMAIN merged : merged[b] # n

\* C7: a step issues an approval, merge or rebase command only for the
\* pull request in flight, and only if that one passes the label-or-bot
\* test, is exactly MERGEABLE and has all-green, sufficient checks; a pull
\* request excluded by a stage is never yielded to the coordinator, gets
\* none of these commands and is not recorded under a base branch.
C7_OnlyEligible == []C7_Excluded /\ [][C7_Step]_vars

C7_Witness ==
    /\ pc = "done"
    /\ \E n, m, k \in 1..MaxPRs :
         /\ ExcludedBy(n, {"not mergeable"})
         /\ ExcludedBy(m, {"skipped tests are not passing"})
         /\ Ran("merge", k)
         /\ n < k /\ m < k

\* the step part and the state part of C8
C8_Step ==
    /\ \A c \in NewCmds :
         c.kind = "checks" =>
           /\ pc = "checks"
           /\ c.number = pr.number
           /\ ~Ran("checks", c.number)
           /\ pr.checks = NoChecks
           /\ PassesLabelOrBot(pr)
           /\ pr.mergeable = "MERGEABLE"
    /\ (pc' = "coord" /\ pc # "coord") =>
         /\ Cmd("checks", pr'.number) \in NewCmds
         /\ pr'.checks # NoChecks
    /\ (pc' \in {"labels", "mergeable", "checks"}) => pr'.checks = NoChecks

C8_Rejected ==
    \A n \in 1..MaxPRs :
       /\ Cardinality({i \in 1..Len(cmds) : cmds[i].cmd = Cmd("checks", n)}) <= 1
       /\ ExcludedBy(n, {"skipped not labeled with labels=", "not mergeable"})
            => ~Ran("checks", n)

\* C8: `gh pr checks` runs at most once per pull request, for the pull
\* request in flight, whose checks are still unset and which passes the
\* label-or-bot test and is MERGEABLE; checks are set by that step only; a
\* pull request rejected by one of the two earlier stages gets no check
\* query.
C8_ChecksOnceAfterFilters == []C8_Rejected /\ [][C8_Step]_vars

C8_Witness ==
    \E n, m, k \in 1..MaxPRs :
       /\ ExcludedBy(n, {"skipped not labeled with labels="})
       /\ ExcludedBy(m, {"not mergeable"})
       /\ Ran("checks", k)
       /\ pc = "coord"
       /\ pr.number = k
       /\ pr.checks # NoChecks

\* the state part and the step part of C9
C9_FailureIsLast ==
    /\ \A i \in 1..Len(cmds) : cmds[i].rc # 0 => (i = Len(cmds) /\ pc = "aborted")
    /\ pc = "aborted" => (cmds # <<>> /\ cmds[Len(cmds)].rc # 0)
    /\ \A i, j \in 1..Len(cmds) : i < j => cmds[i].cmd # cmds[j].cmd

C9_Step ==
    /\ Len(cmds) <= Len(cmds') /\ SubSeq(cmds', 1, Len(cmds)) = cmds
    /\ pc = "aborted" => UNCHANGED vars
    /\ pc' = "aborted" => (merged' = merged /\ ready' = ready /\ prs' = prs)

\* C9: a failed command is the last command of the run and leaves the run
\* aborted; no command is run twice; the step that aborts changes neither
\* the mapping nor the record of the commands run before, and nothing
\* happens after it.
C9_FailFast == []C9_FailureIsLast /\ [][C9_Step]_vars

C9_Witness ==
    /\ pc = "aborted"
    /\ \E n, m \in 1..MaxPRs :
         /\ n < m
         /\ Ran("merge", n)
         /\ cmds[Len(cmds)] = [cmd |-> Cmd("update-branch", m), rc |-> 1]
         /\ DOMAIN merged = {"main"}
         /\ merged["main"] = n
    /\ prs # <<>>

\* C11 as stated: every command that is executed has a log line of the
\* command runner for that command.
C11_LoggedBeforeRun ==
    \A i \in 1..Len(cmds) : Logged(cmds[i].cmd.kind, cmds[i].cmd.number)

\* C11, amended: the command runner logs a command exactly when it does not
\* execute it: no executed command has a log line, every logged command is
\* an approval, merge or rebase of a dry run and is not executed, and a live
\* run has no log line of the runner at all.
C11_LoggedOnlyWhenNotRun ==
    /\ \A i \in 1..Len(cmds) : ~Logged(cmds[i].cmd.kind, cmds[i].cmd.number)
    /\ \A k \in 1..Len(stdout) :
         stdout[k].text = "Would run" =>
           /\ DRY_RUN
           /\ stdout[k].arg.kind \in ActionKinds
           /\ ~Ran(stdout[k].arg.kind, stdout[k].arg.number)

C11_Witness ==
    /\ DRY_RUN
    /\ pc = "done"
    /\ \E n \in 1..MaxPRs :
         /\ Ran("view", n) /\ Ran("checks", n)
         /\ ~Logged("view", n) /\ ~Logged("checks", n)
         /\ Logged("review", n) /\ Logged("merge", n)

MergedNumbers == {merged[b] : b \in DOMAIN merged}

\* the state part and the step part of C12
C12_ApprovedFirst ==
    /\ \A i \in 1..Len(cmds) :
         LET n == cmds[i].cmd.number
         IN /\ cmds[i].cmd.kind = "merge" =>
                 (i > 1 /\ cmds[i - 1] = [cmd |-> Cmd("review", n), rc |-> 0])
            /\ (cmds[i].cmd.kind = "review" /\ cmds[i].rc # 0) =>
                 (~Issued("merge", n) /\ ~(n \in MergedNumbers))
            /\ (cmds[i].cmd.kind = "merge" /\ cmds[i].rc # 0) => ~(n \in MergedNumbers)
    /\ \A k \in 1..Len(stdout) :
         (stdout[k].text = "Would run" /\ stdout[k].arg.kind = "merge") =>
            (k > 1 /\ stdout[k - 1] = WouldRun(Cmd("review", stdout[k].arg.number)))
    /\ \A b \in DOMAIN merged :
         \/ Logged("merge", merged[b])
         \/ \E i \in 1..Len(cmds) : cmds[i] = [cmd |-> Cmd("merge", merged[b]), rc |-> 0]
    /\ \A k \in 1..Len(ProcessedReady) :
         FirstOfBase(ProcessedReady, k) => Issued("review", ProcessedReady[k].number)

C12_RecordedWithMerge ==
    DOMAIN merged' # DOMAIN merged =>
      /\ pc = "coord"
      /\ DOMAIN merged' = DOMAIN merged \cup {pr.baseRefName}
      /\ merged'[pr.baseRefName] = pr.number
      /\ Cmd("merge", pr.number) \in NewCmds \cup NewAnnounced
      /\ pc' # "aborted"

\* C12: a merge command directly follows the successful approval command
\* of the same pull request, executed or announced; a base branch is
\* recorded only by the step that issues the merge of the recorded pull
\* request, and only when that merge succeeded; after a failed approval no
\* merge is issued, and after a failed approval or merge nothing is
\* recorded for that pull request.
C12_ApproveMergeRecord == []C12_ApprovedFirst /\ [][C12_RecordedWithMerge]_vars

C12_Witness ==
    /\ ~DRY_RUN
    /\ pc = "aborted"
    /\ Len(cmds) >= 4
    /\ \E n, m \in 1..MaxPRs :
         /\ n < m
         /\ SubSeq(cmds, Len(cmds) - 3, Len(cmds))
              = <<[cmd |-> Cmd("view", m), rc |-> 0],
                  [cmd |-> Cmd("checks", m), rc |-> 0],
                  [cmd |-> Cmd("review", m), rc |-> 0],
                  [cmd |-> Cmd("merge", m), rc |-> 1]>>
         /\ MergedNumbers = {n}

NewAnnouncedCount ==
    Cardinality({k \in (Len(stdout) + 1)..Len(stdout') : stdout'[k].text = "Would run"})

\* the step part and the state part of C13
C13_RebaseStep ==
    (pc = "coord" /\ pc' # "coord" /\ pr.baseRefName \in DOMAIN merged) =>
      /\ DOMAIN merged' = DOMAIN merged
      /\ \A b \in DOMAIN merged : merged'[b] = merged[b]
      /\ ready' = ready
      /\ ~Issued("update-branch", pr.number)
      /\ NewCmds \cup NewAnnounced = {Cmd("update-branch", pr.number)}
      /\ (Len(cmds') - Len(cmds)) + NewAnnouncedCount = 1

C13_FailedRebaseIsLast ==
    \A i \in 1..Len(cmds) :
       (cmds[i].cmd.kind = "update-branch" /\ cmds[i].rc # 0) =>
          (i = Len(cmds) /\ pc = "aborted")

\* C13: the step that handles a pull request whose base branch is already
\* recorded issues one update-branch command for it, executed or announced,
\* and nothing else, for the first time, and leaves the mapping as it was;
\* a failed update-branch command is the last command of the run.
C13_RebaseRecordsNothing == []C13_FailedRebaseIsLast /\ [][C13_RebaseStep]_vars

C13_Witness ==
    /\ ~DRY_RUN
    /\ pc = "aborted"
    /\ Len(ready) = 3
    /\ Ran("update-branch", ready[2].number)
    /\ cmds[Len(cmds)] = [cmd |-> Cmd("update-branch", ready[3].number), rc |-> 1]
    /\ MergedNumbers = {ready[1].number}

Repeat(check, n) == [k \in 1..n |-> check]

\* a list with the same numbers of pass, fail, pending and cancel checks
\* and no other check
Counted(checks) ==
    Repeat(Check("build", "pass"), Count(checks, "pass"))
    \o Repeat(Check("build", "fail"), Count(checks, "fail"))
    \o Repeat(Check("build", "pending"), Count(checks, "pending"))
    \o Repeat(Check("build", "cancel"), Count(checks, "cancel"))

Uncounted == {Check("build", "skipping"), Check("build", "neutral")}

\* C14: the verdict of the readiness test is that of the list reduced to
\* its numbers of pass, fail, pending and cancel checks; removing every
\* skipping or unrecognized check, or adding one at either end, leaves the
\* verdict as it is.
C14_OnlyCountsMatter ==
    fnOut # Null =>
      LET verdict == fnOut.text = "yield"
      IN /\ verdict = ReadyVerdict(Counted(fnIn.checks), fnIn.min)
         /\ verdict = ReadyVerdict(
                         SelectSeq(fnIn.checks, LAMBDA c : ~(c \in Uncounted)), fnIn.min)
         /\ \A extra \in Uncounted :
              /\ verdict = ReadyVerdict(Append(fnIn.checks, extra), fnIn.min)
              /\ verdict = ReadyVerdict(<<extra>> \o fnIn.checks, fnIn.min)

C14_Witness ==
    /\ fnOut # Null
    /\ fnIn.min = 2
    /\ fnIn.checks = <<Check("build", "pass"), Check("build", "skipping"),
                       Check("build", "neutral")>>
    /\ fnOut.text = "skipped passing but with too few checks"

\* the pull requests that a command was executed or announced for
NumbersSoFar ==
    {cmds[i].cmd.number : i \in 1..Len(cmds)}
    \cup {stdout[k].arg.number : k \in {m \in 1..Len(stdout) : stdout[m].text = "Would run"}}

\* the state part and the step part of C15
C15_InOrder ==
    /\ cmds # <<>> => cmds[1].cmd = Cmd("list", 0)
    /\ \A i \in 2..Len(cmds) :
         /\ cmds[i].cmd.kind # "list"
         /\ i < Len(cmds) => cmds[i].cmd.number <= cmds[i + 1].cmd.number
         /\ (i < Len(cmds) /\ cmds[i + 1].cmd.kind = "view")
              => cmds[i].cmd.number < cmds[i + 1].cmd.number
    /\ pc \in {"labels", "mergeable", "checks", "coord"} =>
         \A k \in 1..Len(prs) : pr.number < prs[k].number

C15_OneAtATime ==
    LET new == NewCmds \cup NewAnnounced
    IN /\ \A c, d \in new : c.number = d.number
       /\ \A c \in new : \A n \in NumbersSoFar :
            /\ n <= c.number
            /\ c.kind = "view" => n < c.number

\* C15: the listing query is the first command and is run once; after it,
\* every step issues commands for one pull request only, whose number is
\* not below that of any earlier command, and a view command is for a
\* higher number than every earlier command, executed or announced; the
\* entries still to be viewed are all above the pull request in flight.
C15_NoInterleaving == []C15_InOrder /\ [][C15_OneAtATime]_vars

C15_Witness ==
    /\ ~DRY_RUN
    /\ pc = "done"
    /\ \E n, m \in 1..MaxPRs :
         /\ n < m
         /\ [k \in 1..Len(cmds) |-> cmds[k].cmd]
              = <<Cmd("list", 0), Cmd("view", n), Cmd("checks", n), Cmd("review", n),
                  Cmd("merge", n), Cmd("view", m), Cmd("checks", m),
                  Cmd("update-branch", m)>>

\* the pull requests viewed so far, and those still to be viewed
Viewed == {stdout[k].arg : k \in {m \in 1..Len(stdout) : stdout[m].text = "PR #"}}

Remaining == {prs[k].number : k \in 1..Len(prs)}

Outcomes(n) ==
    {o \in {"label", "mergeable", "checks", "merged", "rebased"} :
       \/ o = "label" /\ ExcludedBy(n, {"skipped not labeled with labels="})
       \/ o = "mergeable" /\ ExcludedBy(n, {"not mergeable"})
       \/ o = "checks" /\ ExcludedBy(n, {"skipped tests are not passing",
                                          "skipped passing but with too few checks"})
       \/ o = "merged" /\ Issued("merge", n)
       \/ o = "rebased" /\ Issued("update-branch", n)}

\* steps left at most: five for every entry still to be viewed, and those
\* of the pull request in flight
Rank ==
    [start |-> 5 * MaxPRs + 2, labels |-> 5, mergeable |-> 4, checks |-> 3, coord |-> 2,
     next |-> 1, done |-> 0, aborted |-> 0]

Measure == 5 * Len(prs) + Rank[pc]

\* the commands that end the processing of a ready pull request
FinalKinds == {"merge", "update-branch"}

\* the state part and the step part of C16
C16_OneOutcome ==
    /\ ~(pc \in {"done", "aborted"}) => ENABLED Next
    /\ Viewed \cap Remaining = {}
    /\ \A k \in 1..Len(stdout) :
         /\ stdout[k].text = "PR #" =>
              \A m \in (k + 1)..Len(stdout) :
                 stdout[m].text = "PR #" => stdout[m].arg # stdout[k].arg
         /\ stdout[k].text \in SkipTexts =>
              \A m \in (k + 1)..Len(stdout) :
                 stdout[m].text \in SkipTexts => NumberAt(m) # NumberAt(k)
         /\ (stdout[k].text = "Would run" /\ stdout[k].arg.kind \in FinalKinds) =>
              /\ \A m \in (k + 1)..Len(stdout) :
                   (stdout[m].text = "Would run" /\ stdout[m].arg.kind \in FinalKinds)
                     => stdout[m].arg.number # stdout[k].arg.number
              /\ \A i \in 1..Len(cmds) :
                   cmds[i].cmd.kind \in FinalKinds
                     => cmds[i].cmd.number # stdout[k].arg.number
    /\ \A i \in 1..Len(cmds) :
         cmds[i].cmd.kind \in FinalKinds \cup {"view"} =>
           \A j \in (i + 1)..Len(cmds) :
              (cmds[j].cmd.kind \in FinalKinds) = (cmds[i].cmd.kind \in FinalKinds)
                /\ cmds[j].cmd.kind \in FinalKinds \cup {"view"}
                => cmds[j].cmd.number # cmds[i].cmd.number
    /\ \A n \in Viewed :
         /\ Ran("view", n)
         /\ pc \in {"next", "done"} => Cardinality(Outcomes(n)) = 1
    /\ pc = "done" => Remaining = {}

C16_Progress ==
    /\ Measure' < Measure
    /\ (pc # "start" /\ pc' # "aborted") => Viewed' \cup Remaining' = Viewed \cup Remaining

\* C16: the run can always take a step until it is done or aborted, and
\* every step lowers a bound on the steps left, so the run ends; the
\* entries of the listing are each viewed once, none twice and, when the
\* run is done, none left; a viewed pull request that has left the chain
\* has exactly one outcome: excluded by the label stage, by the
\* mergeability stage, by the check stage, merged, or rebased.
C16_OnePassTerminates == []C16_OneOutcome /\ [][C16_Progress]_vars

C16_Witness ==
    /\ pc = "done"
    /\ Cardinality(Viewed) = 3
    /\ \E n, m, k \in Viewed :
         /\ Outcomes(n) = {"merged"}
         /\ Outcomes(m) = {"rebased"}
         /\ Outcomes(k) = {"checks"}

ReadyBases == {ready[k].baseRefName : k \in 1..Len(ready)}

MergedSoFar == {n \in ReadyNumbers : Issued("merge", n)}

RebasedSoFar == {n \in ReadyNumbers : Issued("update-branch", n)}

\* C17: when the run is done, the pull requests merged are as many as the
\* base branches of the ready pull requests, one for each of them, the
\* others are all rebased, and no ready pull request is both or neither.
C17_OneMergePerReadyBase ==
    pc = "done" =>
      /\ Cardinality(MergedSoFar) = Cardinality(ReadyBases)
      /\ \A b \in ReadyBases :
           Cardinality({k \in 1..Len(ready) :
                          ready[k].baseRefName = b /\ ready[k].number \in MergedSoFar}) = 1
      /\ Cardinality(RebasedSoFar) = Len(ready) - Cardinality(ReadyBases)
      /\ MergedSoFar \cap RebasedSoFar = {}
      /\ MergedSoFar \cup RebasedSoFar = ReadyNumbers
      /\ \A n \in ReadyNumbers :
           TimesIssued("merge", n) + TimesIssued("update-branch", n) = 1

C17_Witness ==
    /\ pc = "done"
    /\ Len(ready) = 3
    /\ ReadyBases = {"main", "dev"}
    /\ Cardinality(MergedSoFar) = 2
    /\ Cardinality(RebasedSoFar) = 1

NotGreen(checks) ==
    Count(checks, "fail") + Count(checks, "pending") + Count(checks, "cancel") > 0

\* C18: the readiness test gives one of three results; it is "skipped tests
\* are not passing" exactly when there is a failed, pending or cancelled
\* check, whatever the number of passed checks, and "skipped passing but
\* with too few checks", with that number, exactly when there is none and
\* the passed checks are fewer than the minimum; one passed and one pending
\* check give the first.
C18_OneReason ==
    fnOut # Null =>
      /\ fnOut.text \in {"yield", "skipped tests are not passing",
                         "skipped passing but with too few checks"}
      /\ (fnOut.text = "skipped tests are not passing") <=> NotGreen(fnIn.checks)
      /\ (fnOut.text = "skipped passing but with too few checks")
           <=> (~NotGreen(fnIn.checks) /\ Count(fnIn.checks, "pass") < fnIn.min)
      /\ (fnOut.text = "skipped passing but with too few checks")
           => fnOut.arg = Count(fnIn.checks, "pass")
      /\ CheckStage(from_list(<<Check("build", "pass"), Check("build", "pending")>>),
                    fnIn.min).text = "skipped tests are not passing"

C18_Witness ==
    /\ fnOut # Null
    /\ fnIn.min = 2
    /\ fnIn.checks = <<Check("build", "pass"), Check("build", "pending")>>
    /\ fnOut = Line("skipped tests are not passing", <<>>)

ReadKinds == {"list", "view", "checks"}

\* C19: in dry-run mode the listing query, the view of every pull request
\* that entered the chain and the check query of every pull request that
\* the check stage yielded or excluded are executed, none of them is only
\* announced, and a dry run aborts exactly on the failure of one of them.
C19_DryRunStillReads ==
    DRY_RUN =>
      /\ pc # "start" => (cmds # <<>> /\ cmds[1].cmd = Cmd("list", 0))
      /\ \A n \in Viewed : Ran("view", n)
      /\ \A n \in ReadyNumbers : Ran("checks", n)
      /\ \A n \in Viewed :
           ExcludedBy(n, {"skipped tests are not passing",
                          "skipped passing but with too few checks"}) => Ran("checks", n)
      /\ \A k \in 1..Len(stdout) :
           stdout[k].text = "Would run" => ~(stdout[k].arg.kind \in ReadKinds)
      /\ pc = "aborted" =>
           /\ cmds[Len(cmds)].cmd.kind \in ReadKinds
           /\ cmds[Len(cmds)].rc # 0

C19_Witness ==
    /\ DRY_RUN
    /\ pc = "aborted"
    /\ \E n, m \in 1..MaxPRs :
         /\ n < m
         /\ Logged("merge", n)
         /\ cmds[Len(cmds)] = [cmd |-> Cmd("checks", m), rc |-> 1]
=============================================================================
